---- MODULE Spec2Model ----
(***************************************************************************)
(* A model of keyword_app_own_api.py: the Streamlit form of main(), the    *)
(* batch runner run_gpt() and the per-keyword coroutine process_text().    *)
(*                                                                         *)
(* Strings the program inspects character by character (the template, the  *)
(* keyword input, the keywords, the prompts) are sequences of one-character*)
(* strings.  The credential is an opaque string, only tested for           *)
(* emptiness.  An output text is a sequence of text fragments: the reply's *)
(* content, or "Error: " followed by the exception's description.          *)
(***************************************************************************)
EXTENDS Integers, Sequences, FiniteSets, TLC

VARIABLES
    api_key,          \* main: st.text_input credential
    prompt_template,  \* main: st.text_area template
    keywords_input,   \* main: st.text_area keyword text
    batch_size,       \* main: st.number_input batch size
    pc,               \* control: "form", "error", "loop", "gather", "done"
    message,          \* main: text of st.error / st.success, "" when none
    keywords,         \* main: the effective keyword list passed to run_gpt
    i,                \* run_gpt: loop variable of range(0, len(keywords), batch_size)
    results,          \* run_gpt: accumulated (input, output) pairs
    batch,            \* run_gpt: the slice keywords[i:i + batch_size] being processed
    task,             \* run_gpt: per keyword position, its process_text coroutine
    calls,            \* network: number of POSTs issued per keyword position
    chunks,           \* history: the batches sliced so far, in order
    completion        \* history: positions of the current chunk in completion order

vars == <<api_key, prompt_template, keywords_input, batch_size, pc, message,
          keywords, i, results, batch, task, calls, chunks, completion>>

----------------------------------------------------------------------------
(* Bounds of the model *)

MaxKeywords == 3   \* longest keyword list drawn by Init
MaxBatch == 2      \* batch sizes 1..MaxBatch are drawn besides the program's own
MaxText == 4       \* longest raw keyword text drawn by InitParse
MaxPieces == 3     \* number of template fragments concatenated by InitRender

(* Program constants *)

DEFAULT_BATCH_SIZE == 10
MIN_BATCH_SIZE == 1
MAX_BATCH_SIZE == 100

LF == "\n"
CR == "\r"
SP == " "

MARKER == <<"{", "{", "c", "e", "l", "l", "_", "v", "a", "l", "u", "e", "}", "}">>

LineBreaks == {LF, CR}
Whitespace == {SP, LF, CR}

ERROR_PREFIX == "Error: "
KEY_ERROR == "Please enter your OpenAI API Key."
KEYWORD_ERROR == "Please enter at least one keyword."
SUCCESS == "Processing completed"

----------------------------------------------------------------------------
(* Pure helpers, computed as the Python built-ins compute them *)

Min(a, b) == IF a < b THEN a ELSE b

\* s[a:b] of Python for 0 <= a, 0 <= b
SliceOverlapping(s, a, b) == SubSeq(s, a + 1, Min(b + 1, Len(s)))
Slice(s, a, b) == SubSeq(s, a + 1, Min(b, Len(s)))

\* str.replace(old, new) for non-empty old: left to right, non-overlapping,
\* the inserted text is not scanned again
RECURSIVE ReplaceOffByOne(_, _, _)
ReplaceOffByOne(s, old, new) ==
    IF Len(s) < Len(old) THEN s
    ELSE IF SubSeq(s, 1, Len(old)) = old
         THEN new \o ReplaceOffByOne(SubSeq(s, Len(old), Len(s)), old, new)
         ELSE <<s[1]>> \o ReplaceOffByOne(Tail(s), old, new)

RECURSIVE Replace(_, _, _)
Replace(s, old, new) ==
    IF Len(s) < Len(old) THEN s
    ELSE IF SubSeq(s, 1, Len(old)) = old
         THEN new \o Replace(SubSeq(s, Len(old) + 1, Len(s)), old, new)
         ELSE <<s[1]>> \o Replace(Tail(s), old, new)

\* str.strip(): drop leading and trailing whitespace
RECURSIVE LStrip(_)
LStrip(s) == IF s # <<>> /\ s[1] \in Whitespace THEN LStrip(Tail(s)) ELSE s

RECURSIVE RStrip(_)
RStrip(s) ==
    IF s # <<>> /\ s[Len(s)] \in Whitespace THEN RStrip(SubSeq(s, 1, Len(s) - 1)) ELSE s

StripLeftOnly(s) == LStrip(s)
Strip(s) == RStrip(LStrip(s))

\* str.splitlines(): break at "\n", "\r" and "\r\n" (the line boundaries the
\* alphabet of the model holds); no empty last line
RECURSIVE SplitFrom(_, _)
SplitFrom(s, cur) ==
    IF s = <<>> THEN (IF cur = <<>> THEN <<>> ELSE <<cur>>)
    ELSE IF Len(s) >= 2 /\ s[1] = CR /\ s[2] = LF
         THEN <<cur>> \o SplitFrom(SubSeq(s, 3, Len(s)), <<>>)
    ELSE IF s[1] \in LineBreaks
         THEN <<cur>> \o SplitFrom(Tail(s), <<>>)
    ELSE SplitFrom(Tail(s), cur \o <<s[1]>>)

SplitLines(s) == SplitFrom(s, <<>>)

\* [line.strip() for line in lines if line.strip()]
RECURSIVE StrippedNonBlank(_)
StrippedNonBlank(lines) ==
    IF lines = <<>> THEN <<>>
    ELSE (IF Strip(Head(lines)) # <<>> THEN <<Strip(Head(lines))>> ELSE <<>>)
         \o StrippedNonBlank(Tail(lines))

ParseKeywords(text) == StrippedNonBlank(SplitLines(text))

\* the except clause of process_text: (text, f"Error: {str(e)}")
ErrorResult(text, e) == <<text, <<ERROR_PREFIX, e>>>>

\* the return of process_text: (text, content)
OkResult(text, content) == <<text, <<content>>>>

----------------------------------------------------------------------------
(* Inputs *)

API_KEY == "sk-test"
ApiKeys == {"", API_KEY}

\* "cat: {{cell_value}}"
ScenarioTemplate == <<"c", "a", "t", ":", SP>> \o MARKER

Words == {<<"a">>, <<"b">>}

\* every list of at most n keywords
KeywordLists(n) == UNION {[1..k -> Words] : k \in 0..n}

\* the text of a keyword list, one keyword per line
RECURSIVE JoinLines(_)
JoinLines(l) ==
    IF l = <<>> THEN <<>>
    ELSE IF Len(l) = 1 THEN l[1]
    ELSE l[1] \o <<LF>> \o JoinLines(Tail(l))

\* the smallest sizes and the largest the widget allows; the default size is
\* the one InitParse and InitRender run with
BatchSizes == (MIN_BATCH_SIZE..MaxBatch) \cup {MAX_BATCH_SIZE}

\* what the endpoint may answer and how a request may fail
Contents == {"SOAR"}
PostErrors == {"ClientConnectorError", "ClientResponseError"}
JsonErrors == {"ContentTypeError", "KeyError"}
Failures == PostErrors \cup JsonErrors

NoTask == [pc |-> "none", text |-> <<>>, prompt |-> <<>>, outcome |-> "none",
           result |-> <<>>]

----------------------------------------------------------------------------
(* The state after the form is rendered, before Run is clicked *)

Idle ==
    /\ pc = "form"
    /\ message = ""
    /\ keywords = <<>>
    /\ i = 0
    /\ results = <<>>
    /\ batch = <<>>
    /\ task = <<>>
    /\ calls = <<>>
    /\ chunks = <<>>
    /\ completion = <<>>

Init ==
    /\ api_key \in ApiKeys
    /\ prompt_template = ScenarioTemplate
    /\ keywords_input \in {JoinLines(l) : l \in KeywordLists(MaxKeywords)}
    /\ batch_size \in BatchSizes
    /\ Idle

----------------------------------------------------------------------------
(* main: the Run button *)

ClickRunNoKeyCheck ==
    /\ pc = "form"
    /\ LET kw == ParseKeywords(keywords_input) IN
         /\ keywords' = kw
         /\ pc' = "loop"
         /\ task' = [p \in 1..Len(kw) |-> NoTask]
         /\ calls' = [p \in 1..Len(kw) |-> 0]
         /\ UNCHANGED message
    /\ UNCHANGED <<api_key, prompt_template, keywords_input, batch_size, i, results,
                   batch, chunks, completion>>

ClickRun ==
    /\ pc = "form"
    /\ IF api_key = ""
       THEN /\ pc' = "error"
            /\ message' = KEY_ERROR
            /\ UNCHANGED <<keywords, task, calls>>
       ELSE LET kw == ParseKeywords(keywords_input) IN
            /\ keywords' = kw
            /\ IF kw = <<>>
               THEN /\ pc' = "error"
                    /\ message' = KEYWORD_ERROR
                    /\ UNCHANGED <<task, calls>>
               ELSE /\ pc' = "loop"
                    /\ task' = [p \in 1..Len(kw) |-> NoTask]
                    /\ calls' = [p \in 1..Len(kw) |-> 0]
                    /\ UNCHANGED message
    /\ UNCHANGED <<api_key, prompt_template, keywords_input, batch_size, i, results,
                   batch, chunks, completion>>

----------------------------------------------------------------------------
(* run_gpt: one iteration of the loop up to the gather *)

Inputs == <<api_key, prompt_template, keywords_input, batch_size>>

CurrentTasks == (i + 1)..(i + Len(batch))

StartChunk ==
    /\ pc = "loop"
    /\ i < Len(keywords)
    /\ LET b == Slice(keywords, i, i + batch_size) IN
         /\ batch' = b
         /\ task' = [p \in DOMAIN task |->
                        IF p \in (i + 1)..(i + Len(b))
                        THEN [NoTask EXCEPT !.pc = "created", !.text = b[p - i]]
                        ELSE task[p]]
         /\ chunks' = Append(chunks, b)
    /\ completion' = <<>>
    /\ pc' = "gather"
    /\ UNCHANGED <<Inputs, message, keywords, i, results, calls>>

----------------------------------------------------------------------------
(* process_text *)

\* render the prompt and issue the POST
Post(p) ==
    /\ task[p].pc = "created"
    /\ task' = [task EXCEPT ![p].pc = "posting",
                            ![p].prompt = Replace(prompt_template, MARKER, task[p].text)]
    /\ calls' = [calls EXCEPT ![p] = @ + 1]
    /\ UNCHANGED <<Inputs, pc, message, keywords, i, results, batch, chunks, completion>>

\* the except clause: the exception becomes this keyword's result

ExceptPropagates(p, e) ==
    /\ pc' = "crashed"
    /\ task' = [task EXCEPT ![p].pc = "done", ![p].outcome = e]
    /\ UNCHANGED <<Inputs, message, keywords, i, results, batch, calls, chunks,
                   completion>>

ExceptRetries(p, e) ==
    /\ IF calls[p] < 2
       THEN /\ task' = [task EXCEPT ![p].pc = "created"]
            /\ UNCHANGED completion
       ELSE /\ task' = [task EXCEPT ![p].pc = "done", ![p].outcome = e,
                                    ![p].result = ErrorResult(task[p].text, e)]
            /\ completion' = Append(completion, p)
    /\ UNCHANGED <<Inputs, pc, message, keywords, i, results, batch, calls, chunks>>

Except(p, e) ==
    /\ task' = [task EXCEPT ![p].pc = "done", ![p].outcome = e,
                            ![p].result = ErrorResult(task[p].text, e)]
    /\ completion' = Append(completion, p)
    /\ UNCHANGED <<Inputs, pc, message, keywords, i, results, batch, calls, chunks>>

\* session.post fails, or raise_for_status() rejects the status
PostRaises(p, e) ==
    /\ task[p].pc = "posting"
    /\ e \in PostErrors
    /\ Except(p, e)

\* a 2xx response arrives; the body is awaited
ResponseOk(p) ==
    /\ task[p].pc = "posting"
    /\ task' = [task EXCEPT ![p].pc = "reading"]
    /\ UNCHANGED <<Inputs, pc, message, keywords, i, results, batch, calls, chunks,
                   completion>>

\* response.json() fails, or the body lacks choices[0].message.content
JsonRaises(p, e) ==
    /\ task[p].pc = "reading"
    /\ e \in JsonErrors
    /\ Except(p, e)

\* the body is parsed and the content returned
JsonOk(p, c) ==
    /\ task[p].pc = "reading"
    /\ task' = [task EXCEPT ![p].pc = "done", ![p].outcome = "ok",
                            ![p].result = OkResult(task[p].text, c)]
    /\ completion' = Append(completion, p)
    /\ UNCHANGED <<Inputs, pc, message, keywords, i, results, batch, calls, chunks>>

----------------------------------------------------------------------------
(* run_gpt: the gather returns, the results are extended *)

\* the list gather returns: one result per task, in the order of the tasks
BatchResultsAsCompleted == [k \in 1..Len(completion) |-> task[completion[k]].result]
BatchResults == [k \in 1..Len(batch) |-> task[i + k].result]

RECURSIVE WithoutErrors(_)
WithoutErrors(rs) ==
    IF rs = <<>> THEN <<>>
    ELSE (IF Head(rs)[2][1] = ERROR_PREFIX THEN <<>> ELSE <<Head(rs)>>)
         \o WithoutErrors(Tail(rs))

JoinDropsErrors ==
    /\ pc = "gather"
    /\ \A p \in CurrentTasks : task[p].pc = "done"
    /\ results' = results \o WithoutErrors(BatchResults)
    /\ i' = i + batch_size
    /\ pc' = "loop"
    /\ UNCHANGED <<Inputs, message, keywords, batch, task, calls, chunks, completion>>

JoinFirstCompleted ==
    /\ pc = "gather"
    /\ \E p \in CurrentTasks : task[p].pc = "done"
    /\ results' = results \o BatchResults
    /\ i' = i + batch_size
    /\ pc' = "loop"
    /\ UNCHANGED <<Inputs, message, keywords, batch, task, calls, chunks, completion>>

JoinWithTimeout ==
    /\ pc = "gather"
    /\ \E p \in CurrentTasks : task[p].pc # "created"
    /\ results' = results \o [k \in 1..Len(batch) |->
                                IF task[i + k].pc = "done" THEN task[i + k].result
                                ELSE ErrorResult(task[i + k].text, "TimeoutError")]
    /\ i' = i + batch_size
    /\ pc' = "loop"
    /\ UNCHANGED <<Inputs, message, keywords, batch, task, calls, chunks, completion>>

Join ==
    /\ pc = "gather"
    /\ \A p \in CurrentTasks : task[p].pc = "done"
    /\ results' = results \o BatchResults
    /\ i' = i + batch_size
    /\ pc' = "loop"
    /\ UNCHANGED <<Inputs, message, keywords, batch, task, calls, chunks, completion>>

\* the range is exhausted: run_gpt returns, main reports success
Return ==
    /\ pc = "loop"
    /\ i >= Len(keywords)
    /\ pc' = "done"
    /\ message' = SUCCESS
    /\ UNCHANGED <<Inputs, keywords, i, results, batch, task, calls, chunks, completion>>

----------------------------------------------------------------------------

Positions == DOMAIN task

Next ==
    \/ ClickRun
    \/ StartChunk
    \/ \E p \in Positions : Post(p)
    \/ \E p \in Positions : \E e \in PostErrors : PostRaises(p, e)
    \/ \E p \in Positions : ResponseOk(p)
    \/ \E p \in Positions : \E e \in JsonErrors : JsonRaises(p, e)
    \/ \E p \in Positions : \E c \in Contents : JsonOk(p, c)
    \/ Join
    \/ Return

Spec == Init /\ [][Next]_vars

----------------------------------------------------------------------------
(* The scheduling the event loop gives: a runnable coroutine is resumed,   *)
(* and a request that the endpoint answers (or fails) is answered.         *)

Fairness ==
    /\ WF_vars(StartChunk)
    /\ WF_vars(\E p \in Positions : Post(p))
    /\ WF_vars(\E p \in Positions :
                  \/ \E e \in PostErrors : PostRaises(p, e)
                  \/ ResponseOk(p))
    /\ WF_vars(\E p \in Positions :
                  \/ \E e \in JsonErrors : JsonRaises(p, e)
                  \/ \E c \in Contents : JsonOk(p, c))
    /\ WF_vars(Join)
    /\ WF_vars(Return)

InitFair ==
    /\ api_key \in ApiKeys
    /\ prompt_template = ScenarioTemplate
    /\ keywords_input \in {JoinLines([k \in 1..n |-> <<"a">>]) : n \in 0..MaxKeywords}
    /\ batch_size \in BatchSizes
    /\ Idle

FairSpec == InitFair /\ [][Next]_vars /\ Fairness

----------------------------------------------------------------------------
(* The keyword text as typed: any text over a small alphabet *)

Alphabet == {"a", "b", SP, LF, CR}

Texts(n) == UNION {[1..k -> Alphabet] : k \in 0..n}

\* the lines "a", "", "  ", "b"
ScenarioText == <<"a", LF, LF, SP, SP, LF, "b">>

InitParse ==
    /\ api_key \in ApiKeys
    /\ prompt_template = ScenarioTemplate
    /\ keywords_input \in Texts(MaxText) \cup {ScenarioText}
    /\ batch_size = DEFAULT_BATCH_SIZE
    /\ Idle

SpecParse == InitParse /\ [][Next]_vars

----------------------------------------------------------------------------
(* Templates put together from fragments, rendered with one keyword *)

Pieces == {<<>>, MARKER, SubSeq(MARKER, 1, 6), SubSeq(MARKER, 8, 14), <<"a">>,
           <<"c", "a", "t", ":", SP>>}

RECURSIVE Concats(_)
Concats(n) == IF n = 0 THEN {<<>>} ELSE {a \o b : a \in Pieces, b \in Concats(n - 1)}

RenderKeywords == {<<"a">>, <<"_">>, <<"x">>, MARKER,
                   <<"s", "o", "a", "r", SP, "t", "o", "o", "l">>}

InitRender ==
    /\ api_key = API_KEY
    /\ prompt_template \in Concats(MaxPieces)
    /\ keywords_input \in RenderKeywords
    /\ batch_size = DEFAULT_BATCH_SIZE
    /\ Idle

SpecRender == InitRender /\ [][Next]_vars

----------------------------------------------------------------------------
(* Vocabulary of the properties *)

L == Len(keywords)
B == batch_size

Running == pc \in {"loop", "gather"}
Started == pc \in {"loop", "gather", "done"}

Failed(p) == task[p].outcome \in Failures
Succeeded(p) == task[p].outcome = "ok"
Unresolved(p) == task[p].pc \in {"created", "posting", "reading"}
InFlight(p) == task[p].pc \in {"posting", "reading"}
Rendered(p) == task[p].pc \in {"posting", "reading", "done"}

\* the chunk a keyword position belongs to, counted from 0
ChunkOf(p) == (p - 1) \div B

CeilDiv(a, b) == (a + b - 1) \div b

\* the positions at which w occurs in s
Occurs(s, w) == {k \in 1..(Len(s) - Len(w) + 1) : SubSeq(s, k, k + Len(w) - 1) = w}

Chars(s) == {s[k] : k \in 1..Len(s)}

StartsWithError(out) == Len(out) >= 1 /\ out[1] = "Error: "

----------------------------------------------------------------------------
\* C1: when run_gpt completes, the result sequence has exactly one Result
\* Pair per input keyword, failures included: its length is the length of the
\* keyword list (and between chunks it is the number of keywords passed).
C1_ResultLength ==
    /\ pc = "done" => Len(results) = L
    /\ pc = "loop" => Len(results) = Min(i, L)

\* a run of three keywords in chunks of two has completed with a failure and
\* a success among its three results
C1_Witness ==
    /\ pc = "done"
    /\ L = 3
    /\ B = 2
    /\ Len(results) = 3
    /\ Failed(1)
    /\ Succeeded(2)

----------------------------------------------------------------------------
\* C2: chunks are strictly sequential: a request of a later chunk has been
\* issued only if every task of every earlier chunk is resolved, and all
\* requests in flight at any moment belong to the same chunk.
C2_ChunksSequential ==
    /\ \A p \in Positions : \A q \in Positions :
          (calls[p] > 0 /\ ChunkOf(q) < ChunkOf(p)) => task[q].pc = "done"
    /\ \A p \in Positions : \A q \in Positions :
          (InFlight(p) /\ InFlight(q)) => ChunkOf(p) = ChunkOf(q)

\* with batch size two, the request of the third keyword is in flight and
\* both tasks of the first chunk are resolved
C2_Witness ==
    /\ B = 2
    /\ L = 3
    /\ InFlight(3)
    /\ ChunkOf(3) = 1
    /\ task[1].pc = "done"
    /\ task[2].pc = "done"

----------------------------------------------------------------------------
\* C3: a failed request is terminal for its keyword only: its Result Pair is
\* (keyword, "Error: ..."), the run is not aborted, and when the run completes
\* every keyword was dispatched and has its own Result Pair, an error text
\* exactly for the keywords whose request failed.
C3_FailureIsLocal ==
    /\ (\E p \in Positions : Failed(p)) => Started
    /\ \A p \in Positions :
          Failed(p) => /\ task[p].result[1] = keywords[p]
                       /\ StartsWithError(task[p].result[2])
    /\ pc = "done" =>
          /\ Len(results) = L
          /\ \A p \in Positions :
                /\ calls[p] >= 1
                /\ results[p][1] = keywords[p]
                /\ Failed(p) <=> StartsWithError(results[p][2])
                /\ Succeeded(p) <=> ~StartsWithError(results[p][2])

\* the first keyword failed; the second, in the same chunk, and the third, in
\* the next chunk, succeeded and the run completed
C3_Witness ==
    /\ pc = "done"
    /\ L = 3
    /\ B = 2
    /\ Failed(1)
    /\ Succeeded(2)
    /\ Succeeded(3)
    /\ StartsWithError(results[1][2])
    /\ ~StartsWithError(results[3][2])

----------------------------------------------------------------------------
\* C4: Run with an empty credential, or with keyword text holding nothing
\* but whitespace, ends in a configuration error with no network call and no
\* task; the batch runner runs only when both checks pass.
BlankText(t) == \A k \in 1..Len(t) : t[k] \in Whitespace

C4_Validation ==
    /\ (pc # "form" /\ (api_key = "" \/ BlankText(keywords_input))) =>
          /\ pc = "error"
          /\ message \in {KEY_ERROR, KEYWORD_ERROR}
          /\ task = <<>>
          /\ \A p \in DOMAIN calls : calls[p] = 0
    /\ (Started \/ \E p \in DOMAIN calls : calls[p] > 0) =>
          /\ api_key # ""
          /\ ~BlankText(keywords_input)
    /\ pc = "error" => (api_key = "" \/ BlankText(keywords_input))

\* Run was clicked with a credential and a non-empty text of blank lines
C4_Witness ==
    /\ pc = "error"
    /\ api_key # ""
    /\ keywords_input # <<>>
    /\ message = KEYWORD_ERROR

----------------------------------------------------------------------------
\* C5: results are in the order the tasks were created, whatever the order of
\* completion: the input field of the k-th Result Pair is the k-th keyword.
C5_TaskOrder ==
    \A k \in 1..Len(results) : k <= L /\ results[k][1] = keywords[k]

\* the second request of a chunk completed before the first, and the results
\* of two different keywords were appended
C5_Witness ==
    /\ pc = "done"
    /\ completion = <<2, 1>>
    /\ keywords[1] # keywords[2]
    /\ Len(results) = 2

----------------------------------------------------------------------------
\* C6 as stated: for a template with exactly one marker, the rendered prompt
\* has no marker and exactly one occurrence of the keyword, at the marker's
\* former position.
C6_Original ==
    \A p \in Positions :
        (Rendered(p) /\ Cardinality(Occurs(prompt_template, MARKER)) = 1) =>
            /\ Occurs(task[p].prompt, MARKER) = {}
            /\ Occurs(task[p].prompt, keywords[p]) = Occurs(prompt_template, MARKER)

\* C6 as amended: for a template with exactly one marker, at position m, the
\* rendered prompt is the text before the marker, the keyword, the text after
\* the marker; the keyword occurs at m; and the prompt has no marker when the
\* keyword has no character in common with the marker.
C6_RenderOnce ==
    \A p \in Positions :
        (Rendered(p) /\ Cardinality(Occurs(prompt_template, MARKER)) = 1) =>
            LET T == prompt_template
                K == keywords[p]
                m == CHOOSE k \in Occurs(T, MARKER) : TRUE
            IN /\ task[p].prompt =
                      SubSeq(T, 1, m - 1) \o K \o SubSeq(T, m + Len(MARKER), Len(T))
               /\ m \in Occurs(task[p].prompt, K)
               /\ (Chars(K) \cap Chars(MARKER) = {}) => Occurs(task[p].prompt, MARKER) = {}

\* a template with text on both sides of its one marker was rendered with a
\* keyword that shares no character with the marker
C6_Witness ==
    \E p \in Positions :
        /\ Rendered(p)
        /\ Occurs(prompt_template, MARKER) = {2}
        /\ Len(prompt_template) > Len(MARKER) + 1
        /\ Chars(keywords[p]) \cap Chars(MARKER) = {}
        /\ Occurs(task[p].prompt, MARKER) = {}

----------------------------------------------------------------------------
\* C7: run_gpt processes ceil(L/B) chunks; chunk n is the contiguous slice of
\* the keyword list that starts after (n-1)*B keywords; every chunk but the
\* last has length B and the last has length L mod B, or B if that is 0.
C7_Chunking ==
    /\ Len(chunks) <= CeilDiv(L, B)
    /\ pc = "done" => Len(chunks) = CeilDiv(L, B)
    /\ \A n \in 1..Len(chunks) :
          /\ chunks[n] = SubSeq(keywords, (n - 1) * B + 1, Min(n * B, L))
          /\ n < CeilDiv(L, B) => Len(chunks[n]) = B
          /\ n = CeilDiv(L, B) => Len(chunks[n]) = (IF L % B = 0 THEN B ELSE L % B)

\* three keywords with batch size two were processed as chunks of 2 and 1
C7_Witness ==
    /\ pc = "done"
    /\ L = 3
    /\ B = 2
    /\ Len(chunks) = 2
    /\ Len(chunks[1]) = 2
    /\ Len(chunks[2]) = 1

----------------------------------------------------------------------------
\* C8: the effective keyword list holds exactly the lines of the input that
\* have a non-whitespace character, each from its first to its last
\* non-whitespace character, in their order, duplicates kept; no keyword is
\* empty or starts or ends with whitespace.

\* <<lo, hi>>: the first and the last non-whitespace position of a line
KeywordSpans(t) ==
    {sp \in (1..Len(t)) \X (1..Len(t)) :
        /\ sp[1] <= sp[2]
        /\ t[sp[1]] \notin Whitespace
        /\ t[sp[2]] \notin Whitespace
        /\ \A k \in sp[1]..sp[2] : t[k] \notin LineBreaks
        /\ \A k \in 1..(sp[1] - 1) :
              t[k] \notin Whitespace => \E j \in k..sp[1] : t[j] \in LineBreaks
        /\ \A k \in (sp[2] + 1)..Len(t) :
              t[k] \notin Whitespace => \E j \in sp[2]..k : t[j] \in LineBreaks}

C8_EffectiveKeywords ==
    (pc # "form" /\ api_key # "") =>
        LET t == keywords_input
            spans == KeywordSpans(t)
        IN /\ Len(keywords) = Cardinality(spans)
           /\ \A n \in 1..Len(keywords) :
                 /\ keywords[n] # <<>>
                 /\ keywords[n][1] \notin Whitespace
                 /\ keywords[n][Len(keywords[n])] \notin Whitespace
                 /\ \E sp \in spans :
                       /\ keywords[n] = SubSeq(t, sp[1], sp[2])
                       /\ Cardinality({o \in spans : o[1] < sp[1]}) = n - 1

\* the lines "a", "", "  ", "b" gave the keywords "a", "b"
C8_Witness ==
    /\ pc # "form"
    /\ keywords_input = ScenarioText
    /\ keywords = << <<"a">>, <<"b">> >>

----------------------------------------------------------------------------
\* C9: no request is retried: a keyword position never has more than one
\* POST, and a completed run has issued exactly one per position, L in all.
RECURSIVE Sum(_)
Sum(f) == IF f = <<>> THEN 0 ELSE Head(f) + Sum(Tail(f))

C9_NoRetry ==
    /\ \A p \in DOMAIN calls : calls[p] <= 1
    /\ \A p \in DOMAIN calls : Rendered(p) => calls[p] = 1
    /\ pc = "done" => Sum(calls) = L

\* a run of three keywords completed although two requests failed
C9_Witness ==
    /\ pc = "done"
    /\ L = 3
    /\ Failed(1)
    /\ Failed(3)
    /\ Sum(calls) = 3

----------------------------------------------------------------------------
\* C10: the join waits for all tasks of the chunk: while a task of the chunk
\* is unresolved no step completes the chunk, extends the results, issues a
\* request of another chunk or completes the run; and when every request is
\* eventually resolved, a started run eventually completes.
ChunkPending == pc = "gather" /\ \E p \in CurrentTasks : task[p].pc # "done"

C10_JoinWaitsForAll ==
    /\ [][ChunkPending =>
             /\ pc' = "gather"
             /\ i' = i
             /\ results' = results
             /\ chunks' = chunks
             /\ \A q \in Positions \ CurrentTasks : calls'[q] = calls[q]]_vars
    /\ [](pc = "done" => \A p \in Positions : task[p].pc = "done")
    /\ (Running ~> pc = "done")

\* one request of a chunk is resolved, another is still awaited, and keywords
\* of a later chunk remain
C10_Witness ==
    /\ pc = "gather"
    /\ B = 2
    /\ L = 3
    /\ i = 0
    /\ task[1].pc = "done"
    /\ task[2].pc = "posting"

====
